---- MODULE Spec2Model ----
(***************************************************************************)
(* Bulk-load example client (examples/example_bulkload.py): submission of  *)
(* row-based and column-based import tasks, the poll loop                  *)
(* wait_tasks_to_state and its two wrappers, driven by main(), against a   *)
(* model of the remote import-task service.                                *)
(***************************************************************************)
EXTENDS Integers, Sequences, FiniteSets, TLC

(***************************************************************************)
(* BulkLoadState codes.  The enumeration lives in the pymilvus package;    *)
(* the example only compares the codes, so what matters is the order       *)
(* Pending < Started < Persisted < Completed of the four progress states.  *)
(***************************************************************************)
ImportPending == 0
ImportFailed == 1
ImportStarted == 2
ImportPersisted == 5
ImportCompleted == 6
ImportFailedAndCleaned == 7

FailureCodes == {ImportFailed, ImportFailedAndCleaned}

\* States from which the remote service still moves a task.
NonTerminalCodes == {ImportPending, ImportStarted, ImportPersisted}

\* Max size of the remote pending list (comment above bulkload_rowbased).
PendingCapacity == 32

\* Arguments main() passes to the three bulkload calls.  main() makes the
\* calls one after another and each returns before the next one starts; a
\* behaviour of this model follows one of them, through wait_tasks_persisted
\* and then wait_tasks_competed on what it returned.
row_count_each_file == 3000
file_count == 3
json_row_count == 5000
numpy_row_count == 10000


\* failed_reason values the remote service reports.
FailReasons == {"file too large", "malformed data"}

NoReason == ""

VARIABLES
    jobs,           \* remote: task_id -> task record, task ids are 1..Len(jobs)
    pendingOthers,  \* remote: pending tasks that belong to other clients
    pc,             \* main(): position
    frame,          \* wait_tasks_to_state: "none", "for" or "returned"
    task_ids,       \* wait_tasks_to_state: argument
    state_code,     \* wait_tasks_to_state: argument
    wait_ids,       \* wait_tasks_to_state: ids polled in the current round
    temp_ids,       \* wait_tasks_to_state: ids kept for the next round
    idx,            \* wait_tasks_to_state: position of the for loop in wait_ids
    states,         \* wait_tasks_to_state: the list it returns
    printed,        \* wait_tasks_to_state: the failed states it printed
    queried,        \* wait_tasks_to_state: ids passed to get_bulk_load_state
                    \* in the current round
    rowbased_tasks,             \* main(): result of bulkload_rowbased
    columnbased_json_tasks,     \* main(): result of bulkload_columnbased_json
    columnbased_numpy_tasks,    \* main(): result of bulkload_columnbased_numpy
    counted,        \* the last "n of m tasks have ..." line printed
    delete_ids,     \* main(): the generated ids picked for deletion
    c_pc,           \* create_connection: position
    retry,          \* create_connection: the loop flag
    connected,      \* connections: the default connection exists
    reachable,      \* remote: the service answers at _HOST:_PORT
    attempts,       \* create_connection: calls of connections.connect so far
    slept,          \* create_connection: time units spent in time.sleep(1)
    a_pc,           \* list_all_bulkload_tasks: position
    a_tasks,        \* list_all_bulkload_tasks: the tasks it was given
    a_idx,          \* list_all_bulkload_tasks: position of the for loop
    tally,          \* list_all_bulkload_tasks: its five counters
    summaries,      \* list_all_bulkload_tasks: the summary lines printed
    g_pc,           \* data generation: position
    g_layout,       \* data generation: the bulkload_* function generating
    g_num,          \* data generation: num, the row count asked for
    g_data,         \* gen_json_columnbased: data
    g_column,       \* data generation: the list the running loop appends to
    written,        \* data generation: the files written so far
    q_pc,           \* delete and search: position in main()
    entities,       \* collection: ids left after the acknowledged writes
    replica,        \* collection: ids a reader that lags behind still sees
    id_vectors,     \* main(): ids returned by retrieve()
    q_idx,          \* main(): position of "for id_vector in id_vectors"
    hits            \* one entry per search() made after the delete

remoteVars == <<jobs, pendingOthers>>
pollVars == <<frame, task_ids, state_code, wait_ids, temp_ids, idx, states, printed,
              queried>>
mainVars == <<pc, rowbased_tasks, columnbased_json_tasks, columnbased_numpy_tasks,
              counted, delete_ids>>
connVars == <<c_pc, retry, connected, reachable, attempts, slept>>

\* What the bulk-load run of main() leaves alone.
aggVars == <<a_pc, a_tasks, a_idx, tally, summaries>>

genVars == <<g_pc, g_layout, g_num, g_data, g_column, written>>

queryVars == <<q_pc, entities, replica, id_vectors, q_idx, hits>>

sideVars == <<connVars, aggVars, genVars, queryVars>>

vars == <<jobs, pendingOthers, pc, frame, task_ids, state_code, wait_ids,
          temp_ids, idx, states, printed, rowbased_tasks,
          columnbased_json_tasks, columnbased_numpy_tasks, queried, counted,
          delete_ids, sideVars>>

----------------------------------------------------------------------------
(* Helpers *)

Range(s) == {s[i] : i \in 1..Len(s)}

\* task_ids.append(task.task_id) for task in tasks (main).
TaskIdsOf(tasks) == [k \in 1..Len(tasks) |-> tasks[k].task_id]

\* Auto-generated primary keys of a task: the run lo+1 .. lo+n.
NoIds == [lo |-> 0, n |-> 0]

IdsLen(ids) == ids.n

\* ids[i], counted from 0 as the list index of the client is.
IdsAt(ids, i) == ids.lo + 1 + i

\* No "n of m tasks" line was printed yet.
NothingCounted == [count |-> 0, of |-> 0]

\* Keys the remote service assigns to the rows of task id.
AssignIds(id, row_count) == [lo |-> id * 100000, n |-> row_count]

----------------------------------------------------------------------------
(* The remote import-task service *)

\* A task as the service keeps it; get_bulk_load_state returns this record.
NewJob(id, is_row_based, files, row_count) ==
    [task_id |-> id, state |-> ImportPending, failed_reason |-> NoReason,
     ids |-> NoIds, row_count |-> row_count, is_row_based |-> is_row_based,
     files |-> files]

JobIds == 1..Len(jobs)

\* Number of tasks in the pending list of the service.
PendingCount ==
    pendingOthers + Cardinality({j \in JobIds : jobs[j].state = ImportPending})

\* Row-based files become one task each, a column-based call is one task.
NewTaskCount(is_row_based, files) == IF is_row_based THEN Len(files) ELSE 1

\* Faulty variant of Accepts: one task more than the spare room is let in.
AcceptsOneMore(is_row_based, files) ==
    NewTaskCount(is_row_based, files) <= PendingCapacity - PendingCount + 1

\* New tasks must fit into the spare room of the pending list.
Accepts(is_row_based, files) ==
    NewTaskCount(is_row_based, files) <= PendingCapacity - PendingCount

\* utility.bulk_load accepted: the task list after the call.
JobsAfterLoad(is_row_based, files, row_count) ==
    jobs \o [k \in 1..NewTaskCount(is_row_based, files) |->
                NewJob(Len(jobs) + k, is_row_based,
                       IF is_row_based THEN <<files[k]>> ELSE files,
                       row_count)]

\* utility.bulk_load accepted: the task ids it returns.
LoadedIds(is_row_based, files) ==
    [k \in 1..NewTaskCount(is_row_based, files) |-> Len(jobs) + k]

\* A worker takes a pending task.
JobStart(j) ==
    /\ jobs[j].state = ImportPending
    /\ jobs' = [jobs EXCEPT ![j].state = ImportStarted]
    /\ UNCHANGED <<pendingOthers, pollVars, mainVars>>
    /\ UNCHANGED sideVars

\* Faulty variant of JobPersist: the task jumps over Persisted.
JobPersistSkips(j) ==
    /\ jobs[j].state = ImportStarted
    /\ jobs' = [jobs EXCEPT ![j].state = ImportCompleted,
                            ![j].ids = AssignIds(j, jobs[j].row_count)]
    /\ UNCHANGED <<pendingOthers, pollVars, mainVars>>
    /\ UNCHANGED sideVars

\* All rows are written; the generated keys become available.
JobPersist(j) ==
    /\ jobs[j].state = ImportStarted
    /\ jobs' = [jobs EXCEPT ![j].state = ImportPersisted,
                            ![j].ids = AssignIds(j, jobs[j].row_count)]
    /\ UNCHANGED <<pendingOthers, pollVars, mainVars>>
    /\ UNCHANGED sideVars

\* The segments are indexed.
JobComplete(j) ==
    /\ jobs[j].state = ImportPersisted
    /\ jobs' = [jobs EXCEPT ![j].state = ImportCompleted]
    /\ UNCHANGED <<pendingOthers, pollVars, mainVars>>
    /\ UNCHANGED sideVars

\* Faulty variant of JobFail: a failed task fails again.
JobFailAgain(j, code, reason) ==
    /\ jobs[j].state # ImportCompleted
    /\ code \in FailureCodes
    /\ jobs' = [jobs EXCEPT ![j].state = code, ![j].failed_reason = reason]
    /\ UNCHANGED <<pendingOthers, pollVars, mainVars>>
    /\ UNCHANGED sideVars

\* Processing fails, with or without the partial artifacts rolled back.
JobFail(j, code, reason) ==
    /\ jobs[j].state \in NonTerminalCodes
    /\ code \in FailureCodes
    /\ jobs' = [jobs EXCEPT ![j].state = code, ![j].failed_reason = reason]
    /\ UNCHANGED <<pendingOthers, pollVars, mainVars>>
    /\ UNCHANGED sideVars

\* Another client's pending task is taken by a worker.
OthersStart ==
    /\ pendingOthers > 0
    /\ pendingOthers' = pendingOthers - 1
    /\ UNCHANGED <<jobs, pollVars, mainVars>>
    /\ UNCHANGED sideVars

\* Another client submits a task that fits into the pending list.
OthersSubmit ==
    /\ PendingCount < PendingCapacity
    /\ pendingOthers' = pendingOthers + 1
    /\ UNCHANGED <<jobs, pollVars, mainVars>>
    /\ UNCHANGED sideVars

----------------------------------------------------------------------------
(* wait_tasks_to_state *)

\* state = utility.get_bulk_load_state(task_id=id)
get_bulk_load_state(id) == jobs[id]

\* state.state == ImportFailed or state.state == ImportFailedAndCleaned
IsFailed(state) ==
    state.state = ImportFailed \/ state.state = ImportFailedAndCleaned

\* Faulty variant of Reached: the comparison turned around.
ReachedFlipped(state, code) == state.state <= code

\* state.state >= state_code
Reached(state, code) == state.state >= code

\* Entry of wait_tasks_to_state(ids, code): the frame before the first round.
Enter(ids, code) ==
    /\ frame' = "for"
    /\ task_ids' = ids
    /\ state_code' = code
    /\ wait_ids' = ids
    /\ states' = <<>>
    /\ temp_ids' = <<>>
    /\ idx' = 1
    /\ printed' = <<>>
    /\ queried' = <<>>

\* The frame is dropped when the caller has taken the result.
Leave ==
    /\ frame' = "none"
    /\ task_ids' = <<>>
    /\ state_code' = ImportPending
    /\ wait_ids' = <<>>
    /\ states' = <<>>
    /\ temp_ids' = <<>>
    /\ idx' = 1
    /\ printed' = <<>>
    /\ queried' = <<>>

\* Faulty variant of OnFailed: break instead of continue.
OnFailedBreak(state) ==
    /\ printed' = Append(printed, state)
    /\ idx' = Len(wait_ids) + 1
    /\ UNCHANGED <<states, temp_ids>>

\* Where a failed task goes: it is printed and the loop continues.
OnFailed(state) ==
    /\ printed' = Append(printed, state)
    /\ idx' = idx + 1
    /\ UNCHANGED <<states, temp_ids>>

\* Faulty variant of OnReached: the continue is missing and the id is kept
\* for the next round as well.
OnReachedFallsThrough(state) ==
    /\ states' = Append(states, state)
    /\ temp_ids' = Append(temp_ids, state.task_id)
    /\ idx' = idx + 1
    /\ UNCHANGED printed

\* Where a task at or past the milestone goes.
OnReached(state) ==
    /\ states' = Append(states, state)
    /\ idx' = idx + 1
    /\ UNCHANGED <<printed, temp_ids>>

\* Faulty variant of OnWaiting: the id is not kept for the next round.
OnWaitingDrops(id) ==
    /\ idx' = idx + 1
    /\ UNCHANGED <<printed, states, temp_ids>>

\* Where any other task goes.
OnWaiting(id) ==
    /\ temp_ids' = Append(temp_ids, id)
    /\ idx' = idx + 1
    /\ UNCHANGED <<printed, states>>

\* One iteration of "for id in wait_ids".
PollTask ==
    /\ frame = "for"
    /\ idx <= Len(wait_ids)
    /\ LET id == wait_ids[idx]
           state == get_bulk_load_state(id)
       IN  IF IsFailed(state) THEN OnFailed(state)
           ELSE IF Reached(state, state_code) THEN OnReached(state)
           ELSE OnWaiting(id)
    /\ queried' = Append(queried, wait_ids[idx])
    /\ UNCHANGED <<frame, task_ids, state_code, wait_ids, remoteVars, mainVars>>
    /\ UNCHANGED sideVars

\* Faulty variant of LoopExit: leaves with one id still waiting.
LoopExitEarly(ids) == Len(ids) <= 1

\* len(wait_ids) == 0 after wait_ids = temp_ids
LoopExit(ids) == Len(ids) = 0

\* Faulty variant of RoundEnd: the next round starts over with all the ids.
RoundEndStartsOver ==
    /\ frame = "for"
    /\ idx > Len(wait_ids)
    /\ wait_ids' = IF LoopExit(temp_ids) THEN temp_ids ELSE task_ids
    /\ temp_ids' = <<>>
    /\ idx' = 1
    /\ frame' = IF LoopExit(temp_ids) THEN "returned" ELSE "for"
    /\ queried' = <<>>
    /\ UNCHANGED <<task_ids, state_code, states, printed, remoteVars, mainVars>>
    /\ UNCHANGED sideVars

\* End of a round: wait_ids = temp_ids, then break or sleep and start over.
RoundEnd ==
    /\ frame = "for"
    /\ idx > Len(wait_ids)
    /\ wait_ids' = temp_ids
    /\ temp_ids' = <<>>
    /\ idx' = 1
    /\ frame' = IF LoopExit(temp_ids) THEN "returned" ELSE "for"
    /\ queried' = <<>>
    /\ UNCHANGED <<task_ids, state_code, states, printed, remoteVars, mainVars>>
    /\ UNCHANGED sideVars

\* Faulty variant of PollTaskRaises: the error is swallowed and the same id
\* is asked for again.
PollTaskRetries ==
    /\ frame = "for"
    /\ idx <= Len(wait_ids)
    /\ Len(queried) < Len(wait_ids) + 1
    /\ queried' = Append(queried, wait_ids[idx])
    /\ UNCHANGED <<frame, task_ids, state_code, wait_ids, temp_ids, idx, states,
                   printed, remoteVars, mainVars>>
    /\ UNCHANGED sideVars

\* utility.get_bulk_load_state raises in an iteration of the for loop:
\* nothing catches it in wait_tasks_to_state, its callers or main().
PollTaskRaises ==
    /\ frame = "for"
    /\ idx <= Len(wait_ids)
    /\ queried' = Append(queried, wait_ids[idx])
    /\ frame' = "raised"
    /\ pc' = "raised"
    /\ UNCHANGED <<task_ids, state_code, wait_ids, temp_ids, idx, states,
                   printed, remoteVars, rowbased_tasks, columnbased_json_tasks,
                   columnbased_numpy_tasks, counted, delete_ids>>
    /\ UNCHANGED sideVars

----------------------------------------------------------------------------
(* main() *)

\* file_names of bulkload_rowbased
RowFiles(n) == [i \in 1..n |-> <<"rows_", i - 1, ".json">>]

\* file_names of bulkload_columnbased_json
JsonFiles == << <<"columns_1.json">> >>

\* file_names of bulkload_columnbased_numpy
NumpyFiles == << <<"str_field.json">>, <<"float_vector_field", ".npy">> >>

\* utility.bulk_load followed by wait_tasks_persisted(task_ids), or the error
\* of bulk_load leaving main().
Bulkload(at, next, is_row_based, files, row_count) ==
    /\ pc = at
    /\ frame = "none"
    /\ IF Accepts(is_row_based, files)
       THEN /\ jobs' = JobsAfterLoad(is_row_based, files, row_count)
            /\ Enter(LoadedIds(is_row_based, files), ImportPersisted)
            /\ pc' = next
       ELSE /\ pc' = "raised"
            /\ UNCHANGED <<jobs, pollVars>>
    /\ UNCHANGED <<pendingOthers, rowbased_tasks, columnbased_json_tasks,
                   columnbased_numpy_tasks, counted, delete_ids>>
    /\ UNCHANGED sideVars

\* Faulty variant of bulkload_rowbased: every file gets the rows of all files.
bulkload_rowbased_allrows ==
    Bulkload("bulkload", "rowbased_wait", TRUE,
             RowFiles(file_count), row_count_each_file * file_count)

\* Faulty variant of bulkload_rowbased: the last file is left out.
bulkload_rowbased_short ==
    Bulkload("bulkload", "rowbased_wait", TRUE,
             RowFiles(file_count - 1), row_count_each_file)

\* utility.bulk_load raises for a reason of its own (the service cannot be
\* reached, the request is malformed): the error leaves main().
BulkloadRaises ==
    /\ pc = "bulkload"
    /\ frame = "none"
    /\ pc' = "raised"
    /\ UNCHANGED <<remoteVars, pollVars, rowbased_tasks, columnbased_json_tasks,
                   columnbased_numpy_tasks, counted, delete_ids>>
    /\ UNCHANGED sideVars

bulkload_rowbased ==
    Bulkload("bulkload", "rowbased_wait", TRUE,
             RowFiles(file_count), row_count_each_file)

bulkload_columnbased_json ==
    Bulkload("bulkload", "json_wait", FALSE,
             JsonFiles, json_row_count)

bulkload_columnbased_numpy ==
    Bulkload("bulkload", "numpy_wait", FALSE,
             NumpyFiles, numpy_row_count)

\* Faulty variant of PersistCount: only the Persisted entries are counted.
PersistCountExact(sts) ==
    Cardinality({k \in 1..Len(sts) : sts[k].state = ImportPersisted})

\* persist_count of wait_tasks_persisted
PersistCount(sts) ==
    Cardinality({k \in 1..Len(sts) :
                    \/ sts[k].state = ImportPersisted
                    \/ sts[k].state = ImportCompleted})

\* complete_count of wait_tasks_competed
CompleteCount(sts) ==
    Cardinality({k \in 1..Len(sts) : sts[k].state = ImportCompleted})

\* rowbased_tasks = bulkload_rowbased(...) returns
rowbased_return ==
    /\ pc = "rowbased_wait"
    /\ frame = "returned"
    /\ rowbased_tasks' = states
    /\ pc' = "wait_tasks_competed"
    /\ Leave
    /\ counted' = [count |-> PersistCount(states), of |-> Len(task_ids)]
    /\ UNCHANGED <<remoteVars, columnbased_json_tasks, columnbased_numpy_tasks,
                   delete_ids>>
    /\ UNCHANGED sideVars

json_return ==
    /\ pc = "json_wait"
    /\ frame = "returned"
    /\ columnbased_json_tasks' = states
    /\ pc' = "wait_tasks_competed"
    /\ Leave
    /\ counted' = [count |-> PersistCount(states), of |-> Len(task_ids)]
    /\ UNCHANGED <<remoteVars, rowbased_tasks, columnbased_numpy_tasks,
                   delete_ids>>
    /\ UNCHANGED sideVars

numpy_return ==
    /\ pc = "numpy_wait"
    /\ frame = "returned"
    /\ columnbased_numpy_tasks' = states
    /\ pc' = "wait_tasks_competed"
    /\ Leave
    /\ counted' = [count |-> PersistCount(states), of |-> Len(task_ids)]
    /\ UNCHANGED <<remoteVars, rowbased_tasks, columnbased_json_tasks,
                   delete_ids>>
    /\ UNCHANGED sideVars

\* Faulty variant of CollectedIds: every submitted id is waited for.
SubmittedIds == [k \in 1..Len(jobs) |-> k]

\* The ids main() collects from the three results.
CollectedIds ==
    TaskIdsOf(rowbased_tasks) \o TaskIdsOf(columnbased_json_tasks)
        \o TaskIdsOf(columnbased_numpy_tasks)

wait_tasks_competed ==
    /\ pc = "wait_tasks_competed"
    /\ frame = "none"
    /\ Enter(CollectedIds, ImportCompleted)
    /\ pc' = "competed_wait"
    /\ UNCHANGED <<remoteVars, rowbased_tasks, columnbased_json_tasks,
                   columnbased_numpy_tasks, counted, delete_ids>>
    /\ UNCHANGED sideVars

competed_return ==
    /\ pc = "competed_wait"
    /\ frame = "returned"
    /\ counted' = [count |-> CompleteCount(states), of |-> Len(task_ids)]
    /\ pc' = "pick_delete_ids"
    /\ Leave
    /\ UNCHANGED <<remoteVars, rowbased_tasks, columnbased_json_tasks,
                   columnbased_numpy_tasks, delete_ids>>
    /\ UNCHANGED sideVars

\* The positions main() indexes task.ids at.
RowbasedPick == 5
JsonPick == 10
NumpyPick == 15

\* delete_ids.append(task.ids[i]) for task in tasks
PickedIds(tasks, i) == [k \in 1..Len(tasks) |-> IdsAt(tasks[k].ids, i)]

\* task.ids[i] exists for every task of tasks
CanPick(tasks, i) == \A k \in 1..Len(tasks) : i < IdsLen(tasks[k].ids)

\* main() picks one generated id of every task; a list index out of range
\* raises.
pick_delete_ids ==
    /\ pc = "pick_delete_ids"
    /\ IF /\ CanPick(rowbased_tasks, RowbasedPick)
          /\ CanPick(columnbased_json_tasks, JsonPick)
          /\ CanPick(columnbased_numpy_tasks, NumpyPick)
       THEN /\ delete_ids' = PickedIds(rowbased_tasks, RowbasedPick)
                                \o PickedIds(columnbased_json_tasks, JsonPick)
                                \o PickedIds(columnbased_numpy_tasks, NumpyPick)
            /\ pc' = "done"
       ELSE /\ pc' = "raised"
            /\ UNCHANGED delete_ids
    /\ UNCHANGED <<remoteVars, pollVars, rowbased_tasks, columnbased_json_tasks,
                   columnbased_numpy_tasks, counted>>
    /\ UNCHANGED sideVars

----------------------------------------------------------------------------
(* gen_json_rowbased, gen_json_columnbased, gen_numpy_vectors *)

\* Largest row count a generator is asked for.
MaxRows == 3

ID_FIELD_NAME == "id_field"

VECTOR_FIELD_NAME == "float_vector_field"

STR_FIELD_NAME == "str_field"

DIM == 8

\* Values standing for the results of random.random().
RandomValues == {0, 1}

\* [random.random() for _ in range(_DIM)], the sample being vectors of one
\* repeated value.
RandomVectors == {[d \in 1..DIM |-> x] : x \in RandomValues}

\* data = {}
EmptyDict == <<>>

\* data[key] = value
DictSet(data, key, value) == (key :> value) @@ data

\* The generators a bulkload_* function calls, by the function's name.
Layouts == {"rowbased", "columnbased_json", "columnbased_numpy"}

\* str_field_prefix, or the literal of gen_json_rowbased.
StrPrefix ==
    IF g_layout = "rowbased" THEN "row-based_"
    ELSE IF g_layout = "columnbased_json" THEN "column-based-json_"
    ELSE "column-based-npy_"

\* gen_vectors
GenVectors == g_layout = "columnbased_json"

\* file_names of the bulkload_* function (one file of the row-based ones).
FileNames ==
    IF g_layout = "rowbased" THEN RowFiles(1)
    ELSE IF g_layout = "columnbased_json" THEN JsonFiles
    ELSE NumpyFiles

\* gen_json_rowbased: one iteration of "for i in range(num)".
GenRowAppend ==
    /\ g_pc = "rows"
    /\ Len(g_column) < g_num
    /\ \E v \in RandomVectors :
         g_column' = Append(g_column,
             DictSet(DictSet(EmptyDict, STR_FIELD_NAME, <<StrPrefix, Len(g_column)>>),
                     VECTOR_FIELD_NAME, v))
    /\ UNCHANGED <<g_pc, g_layout, g_num, g_data, written>>

\* gen_json_rowbased: data = {"rows": rows}; json.dump(data, json_file)
GenRowDump ==
    /\ g_pc = "rows"
    /\ Len(g_column) = g_num
    /\ g_data' = DictSet(EmptyDict, "rows", g_column)
    /\ written' = Append(written, [name |-> FileNames[1], format |-> "json",
                                   content |-> g_data'])
    /\ g_pc' = "done"
    /\ UNCHANGED <<g_layout, g_num, g_column>>

\* gen_json_columnbased: one iteration of the first "for i in range(num)".
GenStrAppend ==
    /\ g_pc = "str_column"
    /\ Len(g_column) < g_num
    /\ g_column' = Append(g_column, <<StrPrefix, Len(g_column)>>)
    /\ UNCHANGED <<g_pc, g_layout, g_num, g_data, written>>

\* gen_json_columnbased: data[_STR_FIELD_NAME] = str_column; if gen_vectors:
GenStrStore ==
    /\ g_pc = "str_column"
    /\ Len(g_column) = g_num
    /\ g_data' = DictSet(g_data, STR_FIELD_NAME, g_column)
    /\ g_column' = <<>>
    /\ g_pc' = IF GenVectors THEN "vector_column" ELSE "dump"
    /\ UNCHANGED <<g_layout, g_num, written>>

\* gen_json_columnbased: one iteration of the second "for i in range(num)".
GenVecAppend ==
    /\ g_pc = "vector_column"
    /\ Len(g_column) < g_num
    /\ \E v \in RandomVectors : g_column' = Append(g_column, v)
    /\ UNCHANGED <<g_pc, g_layout, g_num, g_data, written>>

\* gen_json_columnbased: data[_VECTOR_FIELD_NAME] = vector_column
GenVecStore ==
    /\ g_pc = "vector_column"
    /\ Len(g_column) = g_num
    /\ g_data' = DictSet(g_data, VECTOR_FIELD_NAME, g_column)
    /\ g_column' = <<>>
    /\ g_pc' = "dump"
    /\ UNCHANGED <<g_layout, g_num, written>>

\* gen_json_columnbased: json.dump(data, json_file), and the return to
\* bulkload_columnbased_json or bulkload_columnbased_numpy.
GenDump ==
    /\ g_pc = "dump"
    /\ written' = Append(written, [name |-> FileNames[1], format |-> "json",
                                   content |-> g_data])
    /\ g_pc' = IF g_layout = "columnbased_numpy" THEN "arr" ELSE "done"
    /\ UNCHANGED <<g_layout, g_num, g_data, g_column>>

\* gen_numpy_vectors: one row of the list comprehension.
GenNpyAppend ==
    /\ g_pc = "arr"
    /\ Len(g_column) < g_num
    /\ \E v \in RandomVectors : g_column' = Append(g_column, v)
    /\ UNCHANGED <<g_pc, g_layout, g_num, g_data, written>>

\* Faulty variant of GenNpySave: saves the array before it has num rows.
GenNpySaveEarly ==
    /\ g_pc = "arr"
    /\ written' = Append(written, [name |-> FileNames[2], format |-> "npy",
                                   content |-> g_column])
    /\ g_pc' = "done"
    /\ UNCHANGED <<g_layout, g_num, g_data, g_column>>

\* gen_numpy_vectors: np.save(path, arr)
GenNpySave ==
    /\ g_pc = "arr"
    /\ Len(g_column) = g_num
    /\ written' = Append(written, [name |-> FileNames[2], format |-> "npy",
                                   content |-> g_column])
    /\ g_pc' = "done"
    /\ UNCHANGED <<g_layout, g_num, g_data, g_column>>

\* No generator is running.
GenIdle ==
    /\ g_pc = "idle"
    /\ g_layout = "rowbased"
    /\ g_num = 0
    /\ g_data = EmptyDict
    /\ g_column = <<>>
    /\ written = <<>>

----------------------------------------------------------------------------
(* retrieve, delete and search at the end of main() *)

\* Entities in the collection when main() picks the ones to delete.
NumEntities == 4

\* Largest number of ids main() picks to delete.
MaxDeleted == 3

\* The values of consistency_level.
ConsistencyLevels == {"Strong", "Eventually"}

\* The delete_ids main() may have picked: distinct ids of the collection.
DeleteIdLists ==
    {ids \in UNION {[1..n -> 1..NumEntities] : n \in 1..MaxDeleted} :
        \A m, n \in 1..Len(ids) : m # n => ids[m] # ids[n]}

\* Faulty variant of View: a Strong search reads what a lagging reader sees.
ViewLags(level) == replica

\* The ids a search at this consistency level is computed from: Strong
\* reflects every write acknowledged before the call, Eventually may lag.
View(level) == IF level = "Strong" THEN entities ELSE replica

\* id_vectors = retrieve(collection, delete_ids)
Retrieve ==
    /\ q_pc = "retrieve"
    /\ \E ids \in DeleteIdLists :
         id_vectors' = [k \in 1..Len(ids) |-> [id_field |-> ids[k]]]
    /\ q_pc' = "delete"
    /\ UNCHANGED <<entities, replica, q_idx, hits>>

\* delete(collection, delete_ids), acknowledged when it returns.
Delete ==
    /\ q_pc = "delete"
    /\ entities' = entities \ {id_vectors[k].id_field : k \in 1..Len(id_vectors)}
    /\ q_idx' = 1
    /\ q_pc' = "search"
    /\ UNCHANGED <<replica, id_vectors, hits>>

\* The collection: one delete reaches the lagging reader.
Propagate ==
    /\ \E id \in replica \ entities : replica' = replica \ {id}
    /\ UNCHANGED <<q_pc, entities, id_vectors, q_idx, hits>>

\* One iteration of "for id_vector in id_vectors": search() for the vector of
\* a deleted id.  consistency_level is the parameter of search(); main()
\* passes "Strong", the default is "Eventually".
Search ==
    /\ q_pc = "search"
    /\ q_idx <= Len(id_vectors)
    /\ \E level \in ConsistencyLevels :
         hits' = Append(hits, [consistency_level |-> level,
                               id |-> id_vectors[q_idx].id_field,
                               result |-> View(level)])
    /\ q_idx' = q_idx + 1
    /\ UNCHANGED <<q_pc, entities, replica, id_vectors>>

\* The loop over id_vectors is over.
SearchEnd ==
    /\ q_pc = "search"
    /\ q_idx > Len(id_vectors)
    /\ q_pc' = "done"
    /\ UNCHANGED <<entities, replica, id_vectors, q_idx, hits>>

\* main() is not at the delete yet.
QueryIdle ==
    /\ q_pc = "idle"
    /\ entities = {}
    /\ replica = {}
    /\ id_vectors = <<>>
    /\ q_idx = 1
    /\ hits = <<>>

----------------------------------------------------------------------------
(* list_all_bulkload_tasks *)

\* Longest task list given to list_all_bulkload_tasks.
MaxTasks == 3

\* Times list_all_bulkload_tasks is run over the same task list.
MaxRuns == 2

\* Task lists of n tasks in any of the six states.
TaskLists(n) == [1..n -> [state : FailureCodes \cup Range(
    <<ImportPending, ImportStarted, ImportPersisted, ImportCompleted>>)]]

\* pending = 0 ... failed = 0
ZeroTally ==
    [pending |-> 0, started |-> 0, persisted |-> 0, completed |-> 0, failed |-> 0]

\* The if/elif chain of the loop body.
Tallied(t, task) ==
    IF task.state = ImportPending THEN [t EXCEPT !.pending = @ + 1]
    ELSE IF task.state = ImportStarted THEN [t EXCEPT !.started = @ + 1]
    ELSE IF task.state = ImportPersisted THEN [t EXCEPT !.persisted = @ + 1]
    ELSE IF task.state = ImportCompleted THEN [t EXCEPT !.completed = @ + 1]
    ELSE IF task.state = ImportFailed THEN [t EXCEPT !.failed = @ + 1]
    ELSE t

\* Faulty variant of AggStart: the counters are not set back to 0.
AggStartKeepsTally ==
    /\ a_pc = "idle"
    /\ Len(summaries) < MaxRuns
    /\ a_idx' = 1
    /\ a_pc' = "for"
    /\ UNCHANGED <<a_tasks, tally, summaries>>

\* Entry of list_all_bulkload_tasks up to the loop.
AggStart ==
    /\ a_pc = "idle"
    /\ Len(summaries) < MaxRuns
    /\ tally' = ZeroTally
    /\ a_idx' = 1
    /\ a_pc' = "for"
    /\ UNCHANGED <<a_tasks, summaries>>

\* One iteration of "for task in tasks".
AggCount ==
    /\ a_pc = "for"
    /\ a_idx <= Len(a_tasks)
    /\ tally' = Tallied(tally, a_tasks[a_idx])
    /\ a_idx' = a_idx + 1
    /\ UNCHANGED <<a_pc, a_tasks, summaries>>

\* print("There are", len(tasks), "bulkload tasks.", pending, ...)
AggPrint ==
    /\ a_pc = "for"
    /\ a_idx > Len(a_tasks)
    /\ summaries' = Append(summaries, [total |-> Len(a_tasks), counts |-> tally])
    /\ a_pc' = "idle"
    /\ UNCHANGED <<a_tasks, a_idx, tally>>

\* list_all_bulkload_tasks is not running.
AggIdle ==
    /\ a_pc = "idle"
    /\ a_tasks = <<>>
    /\ a_idx = 1
    /\ tally = ZeroTally
    /\ summaries = <<>>

----------------------------------------------------------------------------
(* create_connection *)

\* Attempts and sleeps are counted up to this many; beyond it the counters
\* stay where they are.
MaxAttempts == 20

\* n + 1, held at MaxAttempts.
Count(n) == IF n < MaxAttempts THEN n + 1 ELSE n

\* Faulty variant of Connect: retry is cleared whether connect raised or not.
ConnectOnce ==
    /\ c_pc = "connect"
    /\ retry
    /\ attempts' = Count(attempts)
    /\ connected' = reachable
    /\ retry' = FALSE
    /\ c_pc' = "list"
    /\ UNCHANGED <<reachable, slept>>

\* One pass through the try block: connections.connect(host, port) and
\* retry = False, or the exception handler up to time.sleep(1).
Connect ==
    /\ c_pc = "connect"
    /\ retry
    /\ attempts' = Count(attempts)
    /\ IF reachable
       THEN /\ connected' = TRUE
            /\ retry' = FALSE
            /\ c_pc' = "list"
       ELSE /\ c_pc' = "sleep"
            /\ UNCHANGED <<connected, retry>>
    /\ UNCHANGED <<reachable, slept>>

\* time.sleep(1) returns and the loop tests retry again.
Backoff ==
    /\ c_pc = "sleep"
    /\ slept' = Count(slept)
    /\ c_pc' = IF retry THEN "connect" ELSE "list"
    /\ UNCHANGED <<retry, connected, reachable, attempts>>

\* print(connections.list_connections()) and return.
ListConnections ==
    /\ c_pc = "list"
    /\ c_pc' = "done"
    /\ UNCHANGED <<retry, connected, reachable, attempts, slept>>

\* The service becomes reachable.
ServiceUp ==
    /\ ~reachable
    /\ reachable' = TRUE
    /\ UNCHANGED <<c_pc, retry, connected, attempts, slept>>

\* The service becomes unreachable.
ServiceDown ==
    /\ reachable
    /\ reachable' = FALSE
    /\ UNCHANGED <<c_pc, retry, connected, attempts, slept>>

\* create_connection has returned: where main() is when it starts to load.
ConnDone ==
    /\ c_pc = "done"
    /\ retry = FALSE
    /\ connected = TRUE
    /\ reachable = TRUE
    /\ attempts = 1
    /\ slept = 0

\* The variables of the bulk-load run before main() gets to it.
LoadIdle ==
    /\ jobs = <<>>
    /\ pendingOthers = 0
    /\ pc = "create_connection"
    /\ frame = "none"
    /\ task_ids = <<>>
    /\ state_code = ImportPending
    /\ wait_ids = <<>>
    /\ temp_ids = <<>>
    /\ idx = 1
    /\ states = <<>>
    /\ printed = <<>>
    /\ queried = <<>>
    /\ rowbased_tasks = <<>>
    /\ columnbased_json_tasks = <<>>
    /\ columnbased_numpy_tasks = <<>>
    /\ counted = NothingCounted
    /\ delete_ids = <<>>

loadVars == <<jobs, pendingOthers, pollVars, mainVars>>

\* main() calls create_connection() with the service up or down.
ConnInit ==
    /\ LoadIdle
    /\ c_pc = "connect"
    /\ retry = TRUE
    /\ connected = FALSE
    /\ reachable \in BOOLEAN
    /\ attempts = 0
    /\ slept = 0
    /\ AggIdle
    /\ GenIdle
    /\ QueryIdle

ConnNext ==
    \/ Connect /\ UNCHANGED <<loadVars, aggVars, genVars, queryVars>>
    \/ Backoff /\ UNCHANGED <<loadVars, aggVars, genVars, queryVars>>
    \/ ListConnections /\ UNCHANGED <<loadVars, aggVars, genVars, queryVars>>
    \/ ServiceUp /\ UNCHANGED <<loadVars, aggVars, genVars, queryVars>>
    \/ ServiceDown /\ UNCHANGED <<loadVars, aggVars, genVars, queryVars>>

\* The one thread of main() keeps running: a sleep returns, a connect call
\* returns or raises.
ConnSpec ==
    /\ ConnInit
    /\ [][ConnNext]_vars
    /\ WF_vars((Connect \/ Backoff \/ ListConnections)
                   /\ UNCHANGED <<loadVars, aggVars, genVars, queryVars>>)

----------------------------------------------------------------------------

Init ==
    /\ jobs = <<>>
    /\ pendingOthers = 0
    /\ pc = "bulkload"
    /\ frame = "none"
    /\ task_ids = <<>>
    /\ state_code = ImportPending
    /\ wait_ids = <<>>
    /\ temp_ids = <<>>
    /\ idx = 1
    /\ states = <<>>
    /\ printed = <<>>
    /\ queried = <<>>
    /\ rowbased_tasks = <<>>
    /\ columnbased_json_tasks = <<>>
    /\ columnbased_numpy_tasks = <<>>
    /\ counted = NothingCounted
    /\ delete_ids = <<>>
    /\ ConnDone
    /\ AggIdle
    /\ GenIdle
    /\ QueryIdle

Next ==
    \/ bulkload_rowbased
    \/ bulkload_columnbased_json
    \/ bulkload_columnbased_numpy
    \/ wait_tasks_competed
    \/ PollTask
    \/ RoundEnd
    \/ rowbased_return
    \/ json_return
    \/ numpy_return
    \/ competed_return
    \/ pick_delete_ids
    \/ \E j \in JobIds : JobStart(j)
    \/ \E j \in JobIds : JobPersist(j)
    \/ \E j \in JobIds : JobComplete(j)
    \/ \E j \in JobIds, code \in FailureCodes, reason \in FailReasons :
          JobFail(j, code, reason)

Spec == Init /\ [][Next]_vars

\* The same run with remote calls that may raise.
FaultNext ==
    \/ Next
    \/ PollTaskRaises
    \/ BulkloadRaises

FaultSpec == Init /\ [][FaultNext]_vars

\* A step of the remote service on task j.
JobStep(j) ==
    /\ j \in JobIds
    /\ \/ JobStart(j)
       \/ JobPersist(j)
       \/ JobComplete(j)
       \/ \E code \in FailureCodes, reason \in FailReasons : JobFail(j, code, reason)

\* A step of the client: main() is a single thread that is never suspended
\* for good (time.sleep(2) returns).
Client ==
    \/ bulkload_rowbased
    \/ bulkload_columnbased_json
    \/ bulkload_columnbased_numpy
    \/ wait_tasks_competed
    \/ PollTask
    \/ RoundEnd
    \/ rowbased_return
    \/ json_return
    \/ numpy_return
    \/ competed_return
    \/ pick_delete_ids

\* The client keeps running and the remote service keeps working on every
\* task it has accepted.
FairSpec ==
    /\ Init
    /\ [][Next]_vars
    /\ WF_vars(Client)
    /\ \A j \in 1..file_count : WF_vars(JobStep(j))

(***************************************************************************)
(* Submission against a pending list shared with other clients: the        *)
(* pending list holds any number of their tasks when main() starts, they   *)
(* come and go, and the client's own tasks run their lifecycle.  The poll  *)
(* loop reads the remote state only, so its steps are left out here.       *)
(***************************************************************************)
SubmitInit ==
    /\ jobs = <<>>
    /\ pendingOthers \in 0..PendingCapacity
    /\ pc = "bulkload"
    /\ frame = "none"
    /\ task_ids = <<>>
    /\ state_code = ImportPending
    /\ wait_ids = <<>>
    /\ temp_ids = <<>>
    /\ idx = 1
    /\ states = <<>>
    /\ printed = <<>>
    /\ queried = <<>>
    /\ rowbased_tasks = <<>>
    /\ columnbased_json_tasks = <<>>
    /\ columnbased_numpy_tasks = <<>>
    /\ counted = NothingCounted
    /\ delete_ids = <<>>
    /\ ConnDone
    /\ AggIdle
    /\ GenIdle
    /\ QueryIdle

SubmitNext ==
    \/ bulkload_rowbased
    \/ bulkload_columnbased_json
    \/ bulkload_columnbased_numpy
    \/ \E j \in JobIds : JobStart(j)
    \/ \E j \in JobIds : JobPersist(j)
    \/ \E j \in JobIds : JobComplete(j)
    \/ \E j \in JobIds, code \in FailureCodes, reason \in FailReasons :
          JobFail(j, code, reason)
    \/ OthersStart
    \/ OthersSubmit

SubmitSpec == SubmitInit /\ [][SubmitNext]_vars

(***************************************************************************)
(* list_all_bulkload_tasks run MaxRuns times over one list of tasks, the   *)
(* list being any list of up to MaxTasks tasks.                            *)
(***************************************************************************)
AggInit ==
    /\ LoadIdle
    /\ ConnDone
    /\ a_pc = "idle"
    /\ a_tasks \in UNION {TaskLists(n) : n \in 0..MaxTasks}
    /\ a_idx = 1
    /\ tally = ZeroTally
    /\ summaries = <<>>
    /\ GenIdle
    /\ QueryIdle

AggNext ==
    \/ AggStart /\ UNCHANGED <<loadVars, connVars, genVars, queryVars>>
    \/ AggCount /\ UNCHANGED <<loadVars, connVars, genVars, queryVars>>
    \/ AggPrint /\ UNCHANGED <<loadVars, connVars, genVars, queryVars>>

AggSpec == AggInit /\ [][AggNext]_vars

(***************************************************************************)
(* The data generation of one bulkload_* function, for any row count up    *)
(* to MaxRows.                                                             *)
(***************************************************************************)
GenInit ==
    /\ LoadIdle
    /\ ConnDone
    /\ AggIdle
    /\ QueryIdle
    /\ g_layout \in Layouts
    /\ g_num \in 0..MaxRows
    /\ g_pc = IF g_layout = "rowbased" THEN "rows" ELSE "str_column"
    /\ g_data = EmptyDict
    /\ g_column = <<>>
    /\ written = <<>>

GenNext ==
    \/ GenRowAppend /\ UNCHANGED <<loadVars, connVars, aggVars, queryVars>>
    \/ GenRowDump /\ UNCHANGED <<loadVars, connVars, aggVars, queryVars>>
    \/ GenStrAppend /\ UNCHANGED <<loadVars, connVars, aggVars, queryVars>>
    \/ GenStrStore /\ UNCHANGED <<loadVars, connVars, aggVars, queryVars>>
    \/ GenVecAppend /\ UNCHANGED <<loadVars, connVars, aggVars, queryVars>>
    \/ GenVecStore /\ UNCHANGED <<loadVars, connVars, aggVars, queryVars>>
    \/ GenDump /\ UNCHANGED <<loadVars, connVars, aggVars, queryVars>>
    \/ GenNpyAppend /\ UNCHANGED <<loadVars, connVars, aggVars, queryVars>>
    \/ GenNpySave /\ UNCHANGED <<loadVars, connVars, aggVars, queryVars>>

GenSpec == GenInit /\ [][GenNext]_vars

(***************************************************************************)
(* The end of main(): retrieve, delete, and one search per deleted id at   *)
(* either consistency level, while the deletes reach the lagging reader.   *)
(***************************************************************************)
QueryInit ==
    /\ LoadIdle
    /\ ConnDone
    /\ AggIdle
    /\ GenIdle
    /\ q_pc = "retrieve"
    /\ entities = 1..NumEntities
    /\ replica = 1..NumEntities
    /\ id_vectors = <<>>
    /\ q_idx = 1
    /\ hits = <<>>

QueryNext ==
    \/ Retrieve /\ UNCHANGED <<loadVars, connVars, aggVars, genVars>>
    \/ Delete /\ UNCHANGED <<loadVars, connVars, aggVars, genVars>>
    \/ Propagate /\ UNCHANGED <<loadVars, connVars, aggVars, genVars>>
    \/ Search /\ UNCHANGED <<loadVars, connVars, aggVars, genVars>>
    \/ SearchEnd /\ UNCHANGED <<loadVars, connVars, aggVars, genVars>>

QuerySpec == QueryInit /\ [][QueryNext]_vars

----------------------------------------------------------------------------
(* Properties *)

\* The four progress states in lifecycle order.
LifecycleOrder ==
    <<ImportPending, ImportStarted, ImportPersisted, ImportCompleted>>

Rank(code) == CHOOSE i \in 1..Len(LifecycleOrder) : LifecycleOrder[i] = code

\* code is a progress state at or past the milestone.
AtOrPast(code, milestone) ==
    /\ code \in Range(LifecycleOrder)
    /\ milestone \in Range(LifecycleOrder)
    /\ Rank(code) >= Rank(milestone)

FailedCode(code) == code \in FailureCodes

\* Ids the poll loop still has to resolve: the rest of this round and the
\* ids already kept for the next one.
Active ==
    IF frame = "for"
    THEN {wait_ids[k] : k \in idx..Len(wait_ids)} \cup Range(temp_ids)
    ELSE {}

\* C1: when wait_tasks_to_state returns, the returned list has one entry per
\* submitted task id, failed tasks included.
C1_OneEntryPerTask ==
    frame = "returned" =>
        /\ Len(states) = Len(task_ids)
        /\ \A i \in 1..Len(task_ids) :
              Cardinality({k \in 1..Len(states) : states[k].task_id = task_ids[i]}) = 1

\* C3: every recorded entry of a task that has not failed is at or past the
\* requested milestone in the order Pending < Started < Persisted < Completed.
C3_RecordedAtOrPastMilestone ==
    \A k \in 1..Len(states) :
        ~FailedCode(states[k].state) => AtOrPast(states[k].state, state_code)

\* C3 witness: waiting for Persisted has returned a Persisted and a Completed
\* entry.
C3_Witness ==
    /\ frame = "returned"
    /\ state_code = ImportPersisted
    /\ \E k \in 1..Len(states) : states[k].state = ImportPersisted
    /\ \E k \in 1..Len(states) : states[k].state = ImportCompleted

\* C4: when wait_tasks_to_state returns, every submitted task was observed
\* failed or at or past the milestone.
C4_NeverReturnsEarly ==
    frame = "returned" =>
        \A i \in 1..Len(task_ids) :
            \/ \E k \in 1..Len(states) :
                  /\ states[k].task_id = task_ids[i]
                  /\ AtOrPast(states[k].state, state_code)
            \/ \E k \in 1..Len(printed) :
                  /\ printed[k].task_id = task_ids[i]
                  /\ FailedCode(printed[k].state)

\* C4 witness: a return for three tasks, one observed failed, two recorded.
C4_Witness ==
    /\ frame = "returned"
    /\ Len(task_ids) = 3
    /\ Len(printed) = 1
    /\ Len(states) = 2

\* C5: a task leaves the active set only in the iteration that queries it and
\* finds it failed or at or past the milestone, and a round ends only after
\* every id of the round was queried; a failure aborts no sibling.
C5_FailureKeepsSiblings ==
    [][/\ \A id \in Active :
            id \notin Active' =>
                /\ idx <= Len(wait_ids)
                /\ wait_ids[idx] = id
                /\ idx' = idx + 1
                /\ \/ FailedCode(jobs[id].state)
                   \/ AtOrPast(jobs[id].state, state_code)
       /\ (frame = "for" /\ (frame' # "for" \/ wait_ids' # wait_ids))
              => idx > Len(wait_ids)
      ]_vars

\* C5 witness: the first of three tasks was just observed failed and its two
\* siblings are still to be queried in the same round.
C5_Witness ==
    /\ frame = "for"
    /\ wait_ids = <<1, 2, 3>>
    /\ idx = 2
    /\ Len(printed) = 1
    /\ printed[1].task_id = 1

\* C2: under the fairness of FairSpec the poll loop, once entered, returns;
\* it returns exactly at the end of a round that kept no id for the next
\* round, and has no other way out.
C2_PollerTerminates ==
    /\ (frame = "for") ~> (frame = "returned")
    /\ [][/\ (frame = "for" /\ frame' # "for") =>
                /\ frame' = "returned"
                /\ idx > Len(wait_ids)
                /\ Len(temp_ids) = 0
                /\ wait_ids' = <<>>
          /\ (frame = "for" /\ frame' = "for" /\ idx > Len(wait_ids) /\ idx' = 1)
                => Len(wait_ids') > 0
         ]_vars

\* C2 witness: a return after a round in which the last waiting id resolved.
C2_Witness ==
    /\ frame = "returned"
    /\ wait_ids = <<>>
    /\ Len(task_ids) = 3
    /\ idx = 1

\* C6: a task's state moves only forward along Pending, Started, Persisted,
\* Completed or from a non-terminal state into a failure state; a new task
\* starts Pending and Completed is entered from Persisted only.
C6_LifecycleMonotone ==
    [][/\ \A j \in JobIds :
            jobs'[j].state # jobs[j].state =>
                \/ /\ AtOrPast(jobs'[j].state, jobs[j].state)
                   /\ jobs'[j].state = ImportCompleted
                          => jobs[j].state = ImportPersisted
                \/ /\ jobs[j].state \in NonTerminalCodes
                   /\ FailedCode(jobs'[j].state)
       /\ \A j \in (1..Len(jobs')) \ JobIds : jobs'[j].state = ImportPending
       /\ Len(jobs') >= Len(jobs)
      ]_vars

\* C6 witness: a task has gone all the way to Completed.
C6_Witness == \E j \in JobIds : jobs[j].state = ImportCompleted

\* C7: a failed task never changes again, and failed_reason is set exactly
\* in the failure states.
C7_FailureTerminal ==
    /\ [](\A j \in JobIds :
              (jobs[j].failed_reason # NoReason) <=> FailedCode(jobs[j].state))
    /\ [][\A j \in JobIds :
              FailedCode(jobs[j].state) =>
                  /\ jobs'[j].state = jobs[j].state
                  /\ jobs'[j].failed_reason = jobs[j].failed_reason
         ]_vars

\* C7 witness: the poll loop printed a failed task with its reason while
\* another task failed in the other failure state.
C7_Witness ==
    /\ Len(printed) > 0
    /\ printed[1].state = ImportFailed
    /\ printed[1].failed_reason \in FailReasons
    /\ \E j \in JobIds : jobs[j].state = ImportFailedAndCleaned

\* Rows the client wrote for the task: N per field of a column-based call,
\* row_count_each_file for each file of a row-based call.
RowsWritten(job) ==
    IF job.is_row_based THEN row_count_each_file
    ELSE IF job.files = JsonFiles THEN json_row_count
    ELSE numpy_row_count

\* C8: generated ids are empty in Pending and Started and as many as the
\* task's rows in Persisted and Completed.
C8_GeneratedIdsLength ==
    \A j \in JobIds :
        /\ jobs[j].state \in {ImportPending, ImportStarted}
              => IdsLen(jobs[j].ids) = 0
        /\ jobs[j].state \in {ImportPersisted, ImportCompleted}
              => IdsLen(jobs[j].ids) = RowsWritten(jobs[j])

\* C8 witness: a row-based task is Persisted with 3000 ids next to one that
\* has not started.
C8_Witness ==
    /\ Len(jobs) = 3
    /\ jobs[1].state = ImportPersisted
    /\ IdsLen(jobs[1].ids) = 3000
    /\ jobs[2].state = ImportPending
    /\ jobs[3].state = ImportCompleted

\* C9: the pending list never holds more than PendingCapacity tasks; a
\* submission is accepted only if its tasks fit into the spare room, and a
\* rejected one raises and leaves the task list as it was.
C9_PendingCapacity ==
    /\ [](PendingCount <= PendingCapacity)
    /\ [][pc = "bulkload" /\ pc' # "bulkload" =>
             IF pc' = "raised"
             THEN /\ jobs' = jobs
                  /\ pendingOthers' = pendingOthers
                  /\ PendingCount > PendingCapacity - file_count
             ELSE /\ Len(jobs') - Len(jobs) <= PendingCapacity - PendingCount
                  /\ \A j \in (1..Len(jobs')) \ JobIds :
                        jobs'[j].state = ImportPending
         ]_vars

\* C9 witness: three row-based files were rejected with room for two tasks.
C9_Witness ==
    /\ pc = "raised"
    /\ jobs = <<>>
    /\ pendingOthers = PendingCapacity - 2

\* C10: an accepted row-based submission of file_count files returns
\* file_count distinct new task ids, an accepted column-based submission
\* returns one whether it carries one file or two, and under the fairness of
\* FairSpec every pending row-based task reaches Persisted unless it fails.
C10_TasksPerSubmission ==
    /\ [][pc = "bulkload" /\ pc' \notin {"bulkload", "raised"} =>
             /\ Range(task_ids') = (1..Len(jobs')) \ JobIds
             /\ Cardinality(Range(task_ids')) = Len(task_ids')
             /\ IF pc' = "rowbased_wait"
                THEN /\ Len(task_ids') = file_count
                     /\ \A k \in 1..file_count :
                           jobs'[task_ids'[k]].files = <<RowFiles(file_count)[k]>>
                ELSE /\ Len(task_ids') = 1
                     /\ Len(jobs'[task_ids'[1]].files) =
                            IF pc' = "json_wait" THEN 1 ELSE 2
         ]_vars
    /\ \A j \in 1..file_count :
          (j \in JobIds /\ jobs[j].is_row_based /\ jobs[j].state = ImportPending)
              ~> (/\ j \in JobIds
                  /\ \/ jobs[j].state = ImportPersisted
                     \/ FailedCode(jobs[j].state))

\* C10 witness: the three tasks of the row-based submission are Persisted.
C10_Witness ==
    /\ task_ids = <<1, 2, 3>>
    /\ pc = "rowbased_wait"
    /\ \A j \in 1..3 : jobs[j].is_row_based /\ jobs[j].state = ImportPersisted

\* C11: a failed connect is followed by one sleep and then another connect,
\* create_connection gets past its loop only with a connection made, and if
\* the service becomes reachable for good create_connection returns.
C11_ConnectRetries ==
    /\ [][/\ (c_pc = "connect" /\ c_pc' = "sleep") => ~connected' /\ retry'
          /\ c_pc = "sleep" =>
                (c_pc' = "sleep" \/ (c_pc' = "connect" /\ slept' = Count(slept)))
          /\ (c_pc = "connect" /\ c_pc' # "connect") => attempts' = Count(attempts)
         ]_vars
    /\ [](c_pc \in {"list", "done"} => connected /\ ~retry)
    /\ (c_pc = "sleep") ~> (c_pc = "connect")
    /\ (<>[]reachable) => <>(c_pc = "done")

\* C11 witness: create_connection returned after three failed attempts and
\* three sleeps.
C11_Witness ==
    /\ c_pc = "done"
    /\ connected
    /\ attempts = 4
    /\ slept = 3

\* Ids the poll loop has resolved: recorded in states or printed as failed.
Recorded == {states[k].task_id : k \in 1..Len(states)}

Dropped == {printed[k].task_id : k \in 1..Len(printed)}

\* C12: a remote call that raises ends the run at once: the raising
\* get_bulk_load_state call is the last query of the poll loop, every query
\* either moves the loop on or raises, and after the error the client issues
\* no query and no submission.
C12_NoRetryOutsideConnect ==
    [][/\ (queried' # queried /\ queried' # <<>>) =>
             /\ frame = "for"
             /\ idx <= Len(wait_ids)
             /\ queried' = Append(queried, wait_ids[idx])
             /\ \/ frame' = "for" /\ idx' = idx + 1
                \/ /\ frame' = "raised"
                   /\ pc' = "raised"
                   /\ states' = states
                   /\ temp_ids' = temp_ids
       /\ (pc # "raised" /\ pc' = "raised") =>
             /\ Len(jobs') = Len(jobs)
             /\ frame = "none" => pollVars' = pollVars
       /\ pc = "raised" =>
             /\ pc' = "raised"
             /\ pollVars' = pollVars
             /\ mainVars' = mainVars
             /\ Len(jobs') = Len(jobs)
      ]_vars

\* C12 witness: the query of the second of three ids raised.
C12_Witness ==
    /\ pc = "raised"
    /\ frame = "raised"
    /\ wait_ids = <<1, 2, 3>>
    /\ queried = <<1, 2>>
    /\ idx = 2

\* C16: a round queries the ids of wait_ids in order, each once and no
\* resolved id again; the round ends with all of them queried and the next
\* round's ids are among them; an entry is recorded from the state returned
\* for the id just queried.
C16_RoundQueriesActiveSet ==
    [][/\ (queried' # queried /\ queried' # <<>>) =>
             /\ frame = "for"
             /\ idx <= Len(wait_ids)
             /\ queried = SubSeq(wait_ids, 1, idx - 1)
             /\ queried' = Append(queried, wait_ids[idx])
             /\ wait_ids[idx] \notin Range(queried)
             /\ wait_ids[idx] \notin Recorded \cup Dropped
       /\ (frame = "for" /\ idx > Len(wait_ids) /\ idx' = 1) =>
             /\ queried = wait_ids
             /\ Range(wait_ids') \subseteq Range(wait_ids)
             /\ Range(wait_ids') \cap (Recorded \cup Dropped) = {}
       /\ (states' # states /\ states' # <<>>) =>
             /\ idx <= Len(wait_ids)
             /\ states' = Append(states, jobs[wait_ids[idx]])
             /\ states'[Len(states')].task_id = wait_ids[idx]
      ]_vars

\* C16 witness: the second round is under way with the two ids the first
\* round kept, one of them queried.
C16_Witness ==
    /\ frame = "for"
    /\ Len(task_ids) = 3
    /\ Len(wait_ids) = 2
    /\ Len(queried) = 1
    /\ Len(states) + Len(printed) = 1

HeldTasks == rowbased_tasks \o columnbased_json_tasks \o columnbased_numpy_tasks

CountSum(t) == t.pending + t.started + t.persisted + t.completed + t.failed

\* C14: two runs of list_all_bulkload_tasks over the same task list print
\* the same counts, and a run leaves the task list as it was.
C14_AggregationIdempotent ==
    /\ [](\A m, n \in 1..Len(summaries) : summaries[m] = summaries[n])
    /\ [][a_tasks' = a_tasks]_vars

\* C14 witness: two summaries were printed for a list of three tasks.
C14_Witness ==
    /\ Len(summaries) = 2
    /\ Len(a_tasks) = 3
    /\ summaries[2].counts.persisted = 2
    /\ summaries[2].counts.failed = 1

\* C15: every task is counted in exactly one bucket, so the counts of a
\* summary line add up to the number of tasks.
C15_CountsSumToTotal ==
    \A n \in 1..Len(summaries) :
        CountSum(summaries[n].counts) = summaries[n].total

\* C13: a Strong search made after the delete of an id was acknowledged does
\* not return that id.  (That an Eventually search returns it in one run and
\* not in another is what C13_Witness reaches.)
C13_StrongSearchSeesDelete ==
    /\ \A k \in 1..Len(hits) :
         hits[k].consistency_level = "Strong" => hits[k].id \notin hits[k].result
    /\ q_pc \in {"search", "done"} =>
         \A k \in 1..Len(id_vectors) : id_vectors[k].id_field \notin entities

\* C13 witness: after one delete, a Strong search without the deleted id, an
\* Eventually search that returned its deleted id and one that did not.
C13_Witness ==
    \E i, j, k \in 1..Len(hits) :
        /\ hits[i].consistency_level = "Strong"
        /\ hits[i].id \notin hits[i].result
        /\ hits[j].consistency_level = "Eventually"
        /\ hits[j].id \in hits[j].result
        /\ hits[k].consistency_level = "Eventually"
        /\ hits[k].id \notin hits[k].result

\* The columns of the files written: a JSON file holds one column per key,
\* a numpy file holds the column of the field its name gives.
FieldColumns ==
    UNION {IF written[k].format = "npy"
              THEN {<<written[k].name[1], written[k].content>>}
              ELSE {<<f, written[k].content[f]>> : f \in DOMAIN written[k].content}
           : k \in 1..Len(written)}

\* The field names the files written give a value for.
FieldsWritten ==
    IF g_layout = "rowbased"
        THEN UNION {UNION {DOMAIN written[k].content["rows"][r]
                           : r \in 1..Len(written[k].content["rows"])}
                    : k \in 1..Len(written)}
        ELSE {c[1] : c \in FieldColumns}

\* C20: the columns a column-based generation of num rows wrote are the
\* string and the vector field, one column each, each of num values; the
\* numpy file of the split layout is named after the vector field; no file
\* of any layout gives a value for the primary key.
C20_ColumnsOfEqualLength ==
    /\ ID_FIELD_NAME \notin FieldsWritten
    /\ (g_pc = "done" /\ g_layout # "rowbased") =>
         /\ Cardinality(FieldColumns) = 2
         /\ {c[1] : c \in FieldColumns} = {STR_FIELD_NAME, VECTOR_FIELD_NAME}
         /\ \A c \in FieldColumns : Len(c[2]) = g_num
         /\ [k \in 1..Len(written) |-> written[k].name] = FileNames
    /\ (g_pc = "done" /\ g_layout = "columnbased_numpy") =>
         /\ written[1].format = "json"
         /\ DOMAIN written[1].content = {STR_FIELD_NAME}
         /\ written[2].format = "npy"
         /\ written[2].name = <<VECTOR_FIELD_NAME, ".npy">>
    /\ (g_pc = "done" /\ g_layout = "rowbased") =>
         /\ Len(written[1].content["rows"]) = g_num
         /\ g_num > 0 => FieldsWritten = {STR_FIELD_NAME, VECTOR_FIELD_NAME}

\* C20 witness: the split layout wrote three strings to the JSON file and
\* three vectors to the numpy file.
C20_Witness ==
    /\ g_pc = "done"
    /\ g_layout = "columnbased_numpy"
    /\ g_num = 3
    /\ Len(written) = 2
    /\ Len(written[2].content) = 3

====
